---- MODULE Spec2Model ----
(***************************************************************************)
(* The project tracker's state container (hooks/useStore) and the App      *)
(* handlers that call into it.  `state` is the React state object          *)
(* {projects, categories, records, logs}; every store operation is one     *)
(* functional update  setState(prev => ...)  and so one atomic step.       *)
(*                                                                         *)
(* Identifiers: the source uses the strings 'p1', 'c1'..'c4', 'r1', 'r2'   *)
(* for the default data and generateId() for everything created later.     *)
(* Here an id is a positive number of its own kind (project 1 is 'p1',     *)
(* category 3 is 'c3', record 2 is 'r2'); 0 stands for null / ''.          *)
(* Fields no operation of the store reads (content, createdAt, timestamp)  *)
(* are left out of the records.                                            *)
(*                                                                         *)
(* `storage` is what localStorage holds under STORAGE_KEY.  Spec and       *)
(* SpecRecords follow the state in memory alone; SpecStore adds the start  *)
(* from storage, the effect that writes the state back, and the reload.    *)
(***************************************************************************)
EXTENDS Integers, Sequences, FiniteSets, TLC

VARIABLES state, activeProjectId, lastOp, steps, storage, call, confirmState

vars == <<state, activeProjectId, lastOp, steps, storage, call, confirmState>>

(* ------------------------------ bounds --------------------------------- *)
(* SpecRecords explores every state with at most MaxRecords records and      *)
(* MaxLogs log entries; Spec explores every run of at most MaxSteps handler  *)
(* invocations.                                                              *)
MaxRecords == 3
MaxLogs == 1
MaxSteps == 3

(* names and titles the user can type (already trimmed, non-empty) *)
Names == {"n1"}
Titles == {"t1"}
RecordType == {"normal", "milestone", "todo"}
(* date?: "" is undefined *)
Dates == {"", "d1"}
(* the type and date a record form is submitted with *)
Forms == {[type |-> "normal", date |-> ""], [type |-> "todo", date |-> ""],
          [type |-> "milestone", date |-> "d1"]}

(* ------------------------- array helpers (JS) -------------------------- *)
Range(s) == {s[i] : i \in 1..Len(s)}

Min(a, b) == IF a < b THEN a ELSE b
Max(a, b) == IF a > b THEN a ELSE b

(* Array.prototype.findIndex(r => r.id === id): 0-based, -1 when absent *)
findIndex(s, id) ==
  IF \E i \in 1..Len(s) : s[i].id = id
    THEN (CHOOSE i \in 1..Len(s) : s[i].id = id /\ \A j \in 1..(i-1) : s[j].id # id) - 1
    ELSE -1

(* Array.prototype.find(r => r.id === id); only used when present *)
find(s, id) == s[findIndex(s, id) + 1]

has(s, id) == findIndex(s, id) # -1

(* mutant: the sort is left out *)
sortByOrder_unsorted(s) == s

(* Array.prototype.sort((a, b) => a.order - b.order): a stable sort *)
sortByOrder(s) ==
  LET rank(i) == Cardinality({j \in 1..Len(s) :
                     \/ s[j].order < s[i].order
                     \/ (s[j].order = s[i].order /\ j < i)})
  IN [k \in 1..Len(s) |-> s[CHOOSE i \in 1..Len(s) : rank(i) = k - 1]]

(* the start index Array.prototype.splice uses for an integer `start` *)
spliceStart(len, start) ==
  IF start < 0 THEN Max(len + start, 0) ELSE Min(start, len)

(* s.splice(start, 1): the array that is left *)
spliceRemove(s, start) ==
  LET a == spliceStart(Len(s), start)
  IN IF a >= Len(s) THEN s
     ELSE SubSeq(s, 1, a) \o SubSeq(s, a + 2, Len(s))

(* mutant: the item is put at the end whatever the index *)
spliceInsert_atEnd(s, start, item) == Append(s, item)

(* s.splice(start, 0, item): the array afterwards *)
spliceInsert(s, start, item) ==
  LET a == spliceStart(Len(s), start)
  IN SubSeq(s, 1, a) \o <<item>> \o SubSeq(s, a + 1, Len(s))

(* generateId(): a fresh identifier; the least number not in use stands for it *)
generateId(used) ==
  CHOOSE i \in 1..(Cardinality(used) + 1) : i \notin used /\ \A j \in 1..(i - 1) : j \in used

ids(s) == {s[i].id : i \in 1..Len(s)}

(* --------------------------- default state ----------------------------- *)
DefaultCategoryNames == <<"xuqiu", "sheji", "kaifa", "ceshi">>

defaultState ==
  [projects   |-> <<[id |-> 1, name |-> "sample", order |-> 0]>>,
   categories |-> [i \in 1..4 |->
                    [id |-> i, projectId |-> 1, name |-> DefaultCategoryNames[i],
                     order |-> i - 1]],
   records    |-> <<[id |-> 1, projectId |-> 1, categoryId |-> 1, title |-> "r1title",
                     type |-> "milestone", date |-> "d1", order |-> 0],
                    [id |-> 2, projectId |-> 1, categoryId |-> 3, title |-> "r2title",
                     type |-> "todo", date |-> "", order |-> 1]>>,
   logs       |-> <<>>]

(* ------------------------- storage and start-up ------------------------ *)
(* What localStorage holds under STORAGE_KEY: nothing (getItem gives null), *)
(* a text JSON.parse rejects, or the JSON text of an object.  A JSON text   *)
(* is held as the tree it denotes; a property whose value is undefined is   *)
(* not written by JSON.stringify, so the tree has no such field.            *)
NoItem == [kind |-> "none"]
Unparsable == [kind |-> "text"]

(* the properties of the state's objects that can be undefined: a category's *)
(* projectId (0) and a record's date ("")                                     *)
isUndefined(f, v) ==
  \/ (f = "projectId" /\ v = 0)
  \/ (f = "date" /\ v = "")

(* JSON.stringify of one object: the properties that are not undefined *)
stringifyObject(o) == [f \in {g \in DOMAIN o : ~isUndefined(g, o[g])} |-> o[f]]

(* JSON.stringify(state) *)
JSON_stringify(st) ==
  [kind |-> "json",
   value |-> [projects   |-> [i \in 1..Len(st.projects) |-> stringifyObject(st.projects[i])],
              categories |-> [i \in 1..Len(st.categories) |-> stringifyObject(st.categories[i])],
              records    |-> [i \in 1..Len(st.records) |-> stringifyObject(st.records[i])],
              logs       |-> [i \in 1..Len(st.logs) |-> stringifyObject(st.logs[i])]]]

(* o.f for an object read back from JSON: undefined when the property is absent *)
get(o, f, undefined) == IF f \in DOMAIN o THEN o[f] ELSE undefined

(* a parsed category / record as the objects of the state, every property read *)
asCategory(o) ==
  [id |-> o.id, projectId |-> get(o, "projectId", 0), name |-> o.name, order |-> o.order]

asRecord(o) ==
  [id |-> o.id, projectId |-> o.projectId, categoryId |-> o.categoryId, title |-> o.title,
   type |-> o.type, date |-> get(o, "date", ""), order |-> o.order]

(* a parsed object read as an AppState.  An absent logs list reads as the *)
(* empty list: every reader of the state takes  state.logs || []          *)
asState(parsed) ==
  [projects   |-> parsed.projects,
   categories |-> [i \in 1..Len(parsed.categories) |-> asCategory(parsed.categories[i])],
   records    |-> [i \in 1..Len(parsed.records) |-> asRecord(parsed.records[i])],
   logs       |-> IF "logs" \in DOMAIN parsed THEN parsed.logs ELSE <<>>]

(* mutant: start-up without the projectId migration *)
loadState_notMigrated(saved) ==
  IF saved.kind = "none" THEN defaultState
  ELSE IF saved.kind = "text" THEN defaultState
  ELSE asState(saved.value)

(* the initialiser of useState in useStore: saved = localStorage.getItem(STORAGE_KEY) *)
loadState(saved) ==
  IF saved.kind = "none" THEN defaultState
  ELSE IF saved.kind = "text" THEN defaultState
  ELSE LET parsed == saved.value
           migrate == Len(parsed.projects) > 0
           categories ==
             [i \in 1..Len(parsed.categories) |->
                LET c == asCategory(parsed.categories[i])
                IN IF migrate /\ c.projectId = 0
                     THEN [c EXCEPT !.projectId = parsed.projects[1].id]
                     ELSE c]
       IN [projects   |-> parsed.projects,
           categories |-> categories,
           records    |-> [i \in 1..Len(parsed.records) |-> asRecord(parsed.records[i])],
           logs       |-> IF "logs" \in DOMAIN parsed THEN parsed.logs ELSE <<>>]

(* texts an earlier session can have left in storage.  SavedLegacy: written  *)
(* before categories had a projectId and before the log existed, one         *)
(* category holding three records (one deleted since, one edited into it).   *)
(* SavedOrphans: the same age, every project deleted.  SavedTwoProjects: two *)
(* projects, the second created one shown first, one category still without  *)
(* projectId, two log entries.                                                *)
SavedLegacy ==
  [kind |-> "json",
   value |-> [projects   |-> <<[id |-> 1, name |-> "sample", order |-> 0]>>,
              categories |-> <<[id |-> 1, name |-> "xuqiu", order |-> 0],
                               [id |-> 2, name |-> "sheji", order |-> 1]>>,
              records    |-> <<[id |-> 1, projectId |-> 1, categoryId |-> 1, title |-> "r1title",
                                 type |-> "todo", order |-> 0],
                               [id |-> 2, projectId |-> 1, categoryId |-> 1, title |-> "r2title",
                                 type |-> "milestone", date |-> "d1", order |-> 2],
                               [id |-> 3, projectId |-> 1, categoryId |-> 1, title |-> "r3title",
                                 type |-> "normal", order |-> 2],
                               [id |-> 4, projectId |-> 1, categoryId |-> 2, title |-> "r4title",
                                 type |-> "normal", order |-> 0]>>]]

SavedOrphans ==
  [kind |-> "json",
   value |-> [projects   |-> <<>>,
              categories |-> <<[id |-> 1, name |-> "xuqiu", order |-> 0]>>,
              records    |-> <<>>]]

SavedTwoProjects ==
  [kind |-> "json",
   value |-> [projects   |-> <<[id |-> 2, name |-> "n1", order |-> 0],
                               [id |-> 1, name |-> "sample", order |-> 1]>>,
              categories |-> <<[id |-> 1, projectId |-> 1, name |-> "xuqiu", order |-> 0],
                               [id |-> 2, name |-> "sheji", order |-> 1],
                               [id |-> 3, projectId |-> 2, name |-> "xuqiu", order |-> 0]>>,
              records    |-> <<[id |-> 1, projectId |-> 2, categoryId |-> 3, title |-> "r1title",
                                 type |-> "todo", date |-> "d1", order |-> 0],
                               [id |-> 2, projectId |-> 2, categoryId |-> 2, title |-> "r2title",
                                 type |-> "normal", order |-> 0]>>,
              logs       |-> <<[id |-> 1, projectId |-> 2, content |-> <<"addProject", "n1">>],
                               [id |-> 2, projectId |-> 2,
                                 content |-> <<"addRecord", "r1title">>]>>]]

(* a file the import rejects: it has no records *)
FileWithoutRecords ==
  [kind |-> "json",
   value |-> [projects   |-> <<[id |-> 1, name |-> "sample", order |-> 0]>>,
              categories |-> <<[id |-> 1, projectId |-> 1, name |-> "xuqiu", order |-> 0]>>]]

(* the files the user can pick for import *)
Files == {Unparsable, FileWithoutRecords, SavedLegacy, SavedOrphans, SavedTwoProjects}

SavedItems ==
  {NoItem, Unparsable, JSON_stringify(defaultState), SavedLegacy, SavedOrphans,
   SavedTwoProjects}

(* ------------------------ store operations ----------------------------- *)
(* Each operator is the updater  prev => next  of one useStore callback.   *)

log(used, projectId, label, text) ==
  [id |-> generateId(used), projectId |-> projectId, content |-> <<label, text>>]

addProject(prev, name) ==
  LET newProjectId == generateId(ids(prev.projects))
      c1 == generateId(ids(prev.categories))
      c2 == generateId(ids(prev.categories) \cup {c1})
      c3 == generateId(ids(prev.categories) \cup {c1, c2})
      c4 == generateId(ids(prev.categories) \cup {c1, c2, c3})
      cid == <<c1, c2, c3, c4>>
      newProject == [id |-> newProjectId, name |-> name, order |-> Len(prev.projects)]
      defaultCategories == [i \in 1..4 |->
          [id |-> cid[i], projectId |-> newProjectId, name |-> DefaultCategoryNames[i],
           order |-> i - 1]]
      newLog == log(ids(prev.logs), newProjectId, "addProject", name)
  IN [prev EXCEPT !.projects = Append(@, newProject),
                  !.categories = @ \o defaultCategories,
                  !.logs = Append(@, newLog)]

updateProject(prev, id, name) ==
  [prev EXCEPT !.projects =
     [i \in 1..Len(@) |-> IF @[i].id = id THEN [@[i] EXCEPT !.name = name] ELSE @[i]]]

(* mutant: only the project itself is removed *)
deleteProject_projectOnly(prev, id) ==
  [prev EXCEPT !.projects = SelectSeq(@, LAMBDA p : p.id # id)]

(* mutant: the log entries of the project are kept *)
deleteProject_logsKept(prev, id) ==
  [prev EXCEPT !.projects = SelectSeq(@, LAMBDA p : p.id # id),
               !.categories = SelectSeq(@, LAMBDA c : c.projectId # id),
               !.records = SelectSeq(@, LAMBDA r : r.projectId # id)]

deleteProject(prev, id) ==
  [prev EXCEPT !.projects = SelectSeq(@, LAMBDA p : p.id # id),
               !.categories = SelectSeq(@, LAMBDA c : c.projectId # id),
               !.records = SelectSeq(@, LAMBDA r : r.projectId # id),
               !.logs = SelectSeq(@, LAMBDA l : l.projectId # id)]

reorderProjects(prev, newProjects) == [prev EXCEPT !.projects = newProjects]

addCategory(prev, name, projectId) ==
  LET projectCategories == SelectSeq(prev.categories, LAMBDA c : c.projectId = projectId)
  IN [prev EXCEPT !.categories =
        Append(@, [id |-> generateId(ids(prev.categories)),
                   projectId |-> projectId, name |-> name,
                   order |-> Len(projectCategories)])]

updateCategory(prev, id, name) ==
  [prev EXCEPT !.categories =
     [i \in 1..Len(@) |-> IF @[i].id = id THEN [@[i] EXCEPT !.name = name] ELSE @[i]]]

(* mutant: the records of the category are kept *)
deleteCategory_recordsKept(prev, id) ==
  [prev EXCEPT !.categories = SelectSeq(@, LAMBDA c : c.id # id)]

deleteCategory(prev, id) ==
  [prev EXCEPT !.categories = SelectSeq(@, LAMBDA c : c.id # id),
               !.records = SelectSeq(@, LAMBDA r : r.categoryId # id)]

(* mutant: the given list becomes the list of categories *)
reorderCategories_replaced(prev, newCategories) == [prev EXCEPT !.categories = newCategories]

reorderCategories(prev, newCategories) ==
  [prev EXCEPT !.categories =
     [i \in 1..Len(@) |->
        IF has(newCategories, @[i].id)
          THEN [@[i] EXCEPT !.order = find(newCategories, prev.categories[i].id).order]
          ELSE @[i]]]

(* mutant: the new order counts the records of every category *)
addRecord_countAll(prev, record) ==
  [prev EXCEPT !.records = Append(@,
        [id |-> generateId(ids(prev.records)),
         projectId |-> record.projectId, categoryId |-> record.categoryId,
         title |-> record.title, type |-> record.type, date |-> record.date,
         order |-> Len(prev.records)]),
               !.logs = Append(@, log(ids(prev.logs), record.projectId,
                    IF record.type = "milestone" THEN "addMilestone" ELSE "addRecord",
                    record.title))]

(* mutant: every addition is logged as the addition of a record *)
addRecord_oneLabel(prev, record) ==
  [prev EXCEPT !.records = Append(@,
        [id |-> generateId(ids(prev.records)),
         projectId |-> record.projectId, categoryId |-> record.categoryId,
         title |-> record.title, type |-> record.type, date |-> record.date,
         order |-> Len(SelectSeq(prev.records, LAMBDA r :
                     r.projectId = record.projectId /\ r.categoryId = record.categoryId))]),
               !.logs = Append(@, log(ids(prev.logs), record.projectId, "addRecord",
                                      record.title))]

(* record: the new record without id, createdAt and order *)
addRecord(prev, record) ==
  LET projectRecords == SelectSeq(prev.records, LAMBDA r :
                            r.projectId = record.projectId /\ r.categoryId = record.categoryId)
      newRecord == [id |-> generateId(ids(prev.records)),
                    projectId |-> record.projectId, categoryId |-> record.categoryId,
                    title |-> record.title, type |-> record.type, date |-> record.date,
                    order |-> Len(projectRecords)]
      logContent == IF record.type = "milestone" THEN "addMilestone" ELSE "addRecord"
      newLog == log(ids(prev.logs), record.projectId, logContent, record.title)
  IN [prev EXCEPT !.records = Append(@, newRecord), !.logs = Append(@, newLog)]

(* {...r, ...updates}: updates is a record holding a subset of the fields *)
merge(r, updates) ==
  [f \in DOMAIN r |-> IF f \in DOMAIN updates THEN updates[f] ELSE r[f]]

(* mutant: a completion is logged whenever the update carries a type other than todo *)
updateRecord_anyRecord(prev, id, updates) ==
  LET newLogs ==
        IF /\ has(prev.records, id)
           /\ "type" \in DOMAIN updates
           /\ updates.type # "todo"
          THEN Append(prev.logs, log(ids(prev.logs), find(prev.records, id).projectId,
                                     "completeTodo", find(prev.records, id).title))
          ELSE prev.logs
  IN [prev EXCEPT !.records =
        [i \in 1..Len(@) |-> IF @[i].id = id THEN merge(@[i], updates) ELSE @[i]],
                  !.logs = newLogs]

updateRecord(prev, id, updates) ==
  LET newLogs ==
        IF /\ has(prev.records, id)
           /\ find(prev.records, id).type = "todo"
           /\ "type" \in DOMAIN updates
           /\ updates.type # "todo"
          THEN Append(prev.logs, log(ids(prev.logs), find(prev.records, id).projectId,
                                     "completeTodo", find(prev.records, id).title))
          ELSE prev.logs
  IN [prev EXCEPT !.records =
        [i \in 1..Len(@) |-> IF @[i].id = id THEN merge(@[i], updates) ELSE @[i]],
                  !.logs = newLogs]

(* mutant: the record is removed without a log entry *)
deleteRecord_unlogged(prev, id) ==
  [prev EXCEPT !.records = SelectSeq(@, LAMBDA r : r.id # id)]

deleteRecord(prev, id) ==
  IF ~has(prev.records, id) THEN prev
  ELSE LET recordToDelete == find(prev.records, id)
           newLog == log(ids(prev.logs), recordToDelete.projectId, "deleteRecord",
                         recordToDelete.title)
       IN [prev EXCEPT !.records = SelectSeq(@, LAMBDA r : r.id # id),
                       !.logs = Append(@, newLog)]

(* mutant: the filter keeps the entries it should drop *)
deleteLogs_inverted(prev, logIds) ==
  [prev EXCEPT !.logs = SelectSeq(@, LAMBDA l : l.id \in logIds)]

deleteLogs(prev, logIds) ==
  [prev EXCEPT !.logs = SelectSeq(@, LAMBDA l : l.id \notin logIds)]

(* list.forEach((r, i) => { idx = newRecords.findIndex(nr => nr.id === r.id); ... })   *)
(* from index i on.  whole = FALSE: newRecords[idx] = {...newRecords[idx], order: i};  *)
(* whole = TRUE: if (idx !== -1) newRecords[idx] = {...r, order: i}.  A write to       *)
(* newRecords[-1] adds no element to the array.                                          *)
RECURSIVE assignOrders(_, _, _, _)
assignOrders(newRecords, list, i, whole) ==
  IF i >= Len(list) THEN newRecords
  ELSE LET r == list[i + 1]
           idx == findIndex(newRecords, r.id)
       IN IF idx = -1 THEN assignOrders(newRecords, list, i + 1, whole)
          ELSE assignOrders(
                 [newRecords EXCEPT ![idx + 1] =
                    IF whole THEN [r EXCEPT !.order = i] ELSE [@ EXCEPT !.order = i]],
                 list, i + 1, whole)

(* mutant: a move to another category leaves the category it left as it was *)
moveRecordRecords_sourceKept(records, recordId, newCategoryId, newOrder) ==
  LET record == find(records, recordId)
      oldCategoryId == record.categoryId
  IN IF oldCategoryId = newCategoryId
       THEN LET categoryRecords == sortByOrder(SelectSeq(records, LAMBDA r :
                    r.categoryId = oldCategoryId /\ r.projectId = record.projectId))
                oldIndex == findIndex(categoryRecords, recordId)
                moved == categoryRecords[oldIndex + 1]
                spliced == spliceInsert(spliceRemove(categoryRecords, oldIndex),
                                        newOrder, moved)
            IN assignOrders(records, spliced, 0, FALSE)
       ELSE LET newCategoryRecords == sortByOrder(SelectSeq(records, LAMBDA r :
                    r.categoryId = newCategoryId /\ r.projectId = record.projectId))
                movedRecord == [record EXCEPT !.categoryId = newCategoryId]
                spliced == spliceInsert(newCategoryRecords, newOrder, movedRecord)
            IN assignOrders(records, spliced, 0, TRUE)

(* mutant: a move within the category writes the new index on the moved record only *)
moveRecordRecords_movedOnly(records, recordId, newCategoryId, newOrder) ==
  LET record == find(records, recordId)
      oldCategoryId == record.categoryId
  IN IF oldCategoryId = newCategoryId
       THEN [i \in 1..Len(records) |->
               IF records[i].id = recordId THEN [records[i] EXCEPT !.order = newOrder]
               ELSE records[i]]
       ELSE LET oldCategoryRecords == sortByOrder(SelectSeq(records, LAMBDA r :
                    /\ r.categoryId = oldCategoryId
                    /\ r.projectId = record.projectId
                    /\ r.id # recordId))
                newRecords1 == assignOrders(records, oldCategoryRecords, 0, FALSE)
                newCategoryRecords == sortByOrder(SelectSeq(newRecords1, LAMBDA r :
                    r.categoryId = newCategoryId /\ r.projectId = record.projectId))
                movedRecord == [record EXCEPT !.categoryId = newCategoryId]
                spliced == spliceInsert(newCategoryRecords, newOrder, movedRecord)
            IN assignOrders(newRecords1, spliced, 0, TRUE)

(* the records array moveRecord returns; the record is known to exist *)
moveRecordRecords(records, recordId, newCategoryId, newOrder) ==
  LET record == find(records, recordId)
      oldCategoryId == record.categoryId
  IN IF oldCategoryId = newCategoryId
       THEN LET categoryRecords == sortByOrder(SelectSeq(records, LAMBDA r :
                    r.categoryId = oldCategoryId /\ r.projectId = record.projectId))
                oldIndex == findIndex(categoryRecords, recordId)
                moved == categoryRecords[oldIndex + 1]
                spliced == spliceInsert(spliceRemove(categoryRecords, oldIndex),
                                        newOrder, moved)
            IN assignOrders(records, spliced, 0, FALSE)
       ELSE LET oldCategoryRecords == sortByOrder(SelectSeq(records, LAMBDA r :
                    /\ r.categoryId = oldCategoryId
                    /\ r.projectId = record.projectId
                    /\ r.id # recordId))
                newRecords1 == assignOrders(records, oldCategoryRecords, 0, FALSE)
                newCategoryRecords == sortByOrder(SelectSeq(newRecords1, LAMBDA r :
                    r.categoryId = newCategoryId /\ r.projectId = record.projectId))
                movedRecord == [record EXCEPT !.categoryId = newCategoryId]
                spliced == spliceInsert(newCategoryRecords, newOrder, movedRecord)
            IN assignOrders(newRecords1, spliced, 0, TRUE)

(* mutant: the move also writes a log entry *)
moveRecord_logged(prev, recordId, newCategoryId, newOrder) ==
  IF ~has(prev.records, recordId) THEN prev
  ELSE [prev EXCEPT !.records = moveRecordRecords(@, recordId, newCategoryId, newOrder),
                    !.logs = Append(@, log(ids(prev.logs),
                                           find(prev.records, recordId).projectId,
                                           "moveRecord", find(prev.records, recordId).title))]

moveRecord(prev, recordId, newCategoryId, newOrder) ==
  IF ~has(prev.records, recordId) THEN prev
  ELSE [prev EXCEPT !.records = moveRecordRecords(@, recordId, newCategoryId, newOrder)]

(* mutant: the imported records are added to the records there were *)
importData_recordsKept(prev, data) == [data EXCEPT !.records = prev.records \o @]

importData(prev, data) == data

(* --------------------------- the App component ------------------------- *)
(* Sidebar renders  projects.sort((a, b) => a.order - b.order)  on the     *)
(* array held in state: every render leaves state.projects sorted.         *)
render(st) == [st EXCEPT !.projects = sortByOrder(@)]

(* the records of one category, and whether their orders are exactly 0..n-1 *)
inCategory(records, c) == SelectSeq(records, LAMBDA r : r.categoryId = c)

ordersContiguous(records, c) ==
  LET s == inCategory(records, c)
  IN {s[i].order : i \in 1..Len(s)} = 0..(Len(s) - 1)

(* lastOp: the handler that produced the current state, the id it was given,  *)
(* the category (or project) it took from and gave to, and whether the orders *)
(* of the category it took from (gave to, for an add) were 0..n-1 before it   *)
NoOp == [op |-> "init", id |-> 0, from |-> 0, to |-> 0, pre |-> TRUE]

(* confirmState of App: the confirm dialog is closed, onConfirm does nothing *)
NoDialog == [isOpen |-> FALSE]

(* call: the callback of the store invoked last, with its arguments *)
NoCall == [fn |-> "init"]

(* props of ProjectView / CategoryManager / RecordModal *)
projectRecords == SelectSeq(state.records, LAMBDA r : r.projectId = activeProjectId)
projectCategories == SelectSeq(state.categories, LAMBDA c : c.projectId = activeProjectId)
categoriesOf(p) == SelectSeq(state.categories, LAMBDA c : c.projectId = p)

(* arrayMove(array, from, to) of @dnd-kit/sortable, 0-based indices *)
arrayMove(array, from, to) ==
  spliceInsert(spliceRemove(array, from), to, array[from + 1])

(* .map((x, i) => ({ ...x, order: i })) *)
withIndexOrder(s) == [i \in 1..Len(s) |-> [s[i] EXCEPT !.order = i - 1]]

Init ==
  /\ state = defaultState
  /\ activeProjectId = (IF Len(state.projects) > 0 THEN state.projects[1].id ELSE 0)
  /\ lastOp = NoOp
  /\ steps = 0
  /\ storage = NoItem
  /\ call = NoCall
  /\ confirmState = NoDialog

(* Sidebar.handleAdd -> addProject *)
AddProject ==
  \E name \in Names :
    /\ state' = render(addProject(state, name))
    /\ lastOp' = [NoOp EXCEPT !.op = "addProject"]
    /\ UNCHANGED activeProjectId

(* SortableProjectItem.handleSave -> updateProject *)
UpdateProject ==
  \E id \in ids(state.projects), name \in Names :
    /\ state' = render(updateProject(state, id, name))
    /\ lastOp' = [NoOp EXCEPT !.op = "updateProject"]
    /\ UNCHANGED activeProjectId

(* App.handleDeleteProject, confirmed *)
HandleDeleteProject ==
  \E id \in ids(state.projects) :
    /\ state' = render(deleteProject(state, id))
    /\ activeProjectId' =
         IF activeProjectId = id
           THEN LET remainingProjects == SelectSeq(state.projects, LAMBDA p : p.id # id)
                IN IF Len(remainingProjects) > 0 THEN remainingProjects[1].id ELSE 0
           ELSE activeProjectId
    /\ lastOp' = [NoOp EXCEPT !.op = "deleteProject", !.id = id]

(* Sidebar onSelect -> setActiveProjectId *)
SelectProject ==
  \E id \in ids(state.projects) :
    /\ id # activeProjectId
    /\ activeProjectId' = id
    /\ lastOp' = [NoOp EXCEPT !.op = "selectProject"]
    /\ UNCHANGED state

(* Sidebar.handleDragEnd -> reorderProjects *)
ReorderProjects ==
  \E active \in ids(state.projects), over \in ids(state.projects) :
    /\ active # over
    /\ LET oldIndex == findIndex(state.projects, active)
           newIndex == findIndex(state.projects, over)
           newProjects == withIndexOrder(arrayMove(state.projects, oldIndex, newIndex))
       IN state' = render(reorderProjects(state, newProjects))
    /\ lastOp' = [NoOp EXCEPT !.op = "reorderProjects"]
    /\ UNCHANGED activeProjectId

(* CategoryManager.handleAdd -> App onAdd -> addCategory *)
AddCategory ==
  \E name \in Names :
    /\ activeProjectId # 0
    /\ state' = render(addCategory(state, name, activeProjectId))
    /\ lastOp' = [NoOp EXCEPT !.op = "addCategory"]
    /\ UNCHANGED activeProjectId

(* SortableCategoryItem.handleSave -> updateCategory *)
UpdateCategory ==
  \E id \in ids(projectCategories), name \in Names :
    /\ state' = render(updateCategory(state, id, name))
    /\ lastOp' = [NoOp EXCEPT !.op = "updateCategory"]
    /\ UNCHANGED activeProjectId

(* App.handleDeleteCategory, confirmed *)
HandleDeleteCategory ==
  \E id \in ids(projectCategories) :
    /\ state' = render(deleteCategory(state, id))
    /\ lastOp' = [NoOp EXCEPT !.op = "deleteCategory", !.id = id]
    /\ UNCHANGED activeProjectId

(* CategoryManager.handleDragEnd -> reorderCategories; the manager renders  *)
(* categories.sort(by order) on its own copy of the project's categories    *)
ReorderCategories ==
  \E active \in ids(projectCategories), over \in ids(projectCategories) :
    /\ active # over
    /\ LET categories == sortByOrder(projectCategories)
           oldIndex == findIndex(categories, active)
           newIndex == findIndex(categories, over)
           newCategories == withIndexOrder(arrayMove(categories, oldIndex, newIndex))
       IN state' = render(reorderCategories(state, newCategories))
    /\ lastOp' = [NoOp EXCEPT !.op = "reorderCategories", !.id = active, !.to = over]
    /\ UNCHANGED activeProjectId

(* RecordModal.handleSave (new record), QuickAddModal.handleSave and         *)
(* TodoHierarchyModal.submitSubtask -> addRecord: a project, one of its      *)
(* categories, a title, and a date whenever the type is milestone            *)
AddRecord(forms) ==
  \E p \in ids(state.projects), title \in Titles, form \in forms :
    \E c \in ids(categoriesOf(p)) :
      /\ form.type = "milestone" => form.date # ""
      /\ state' = render(addRecord(state, [projectId |-> p, categoryId |-> c,
                                           title |-> title, type |-> form.type,
                                           date |-> form.date]))
      /\ lastOp' = [NoOp EXCEPT !.op = "addRecord", !.to = c,
                                !.pre = ordersContiguous(state.records, c)]
      /\ UNCHANGED activeProjectId

(* RecordModal.handleSave (existing record) -> updateRecord *)
SaveRecord ==
  \E id \in ids(projectRecords), title \in Titles, form \in Forms :
    \E c \in ids(projectCategories) :
      /\ form.type = "milestone" => form.date # ""
      /\ state' = render(updateRecord(state, id,
                    [title |-> title, type |-> form.type, date |-> form.date,
                     categoryId |-> c]))
      /\ lastOp' = [NoOp EXCEPT !.op = "updateRecord", !.id = id,
                                !.from = find(state.records, id).categoryId, !.to = c]
      /\ UNCHANGED activeProjectId

(* App.handleCheckTodo / TodoHierarchyModal.handleCheck -> updateRecord *)
HandleCheckTodo ==
  \E id \in ids(projectRecords) :
    LET record == find(state.records, id)
    IN /\ record.type = "todo"
       /\ state' = render(updateRecord(state, id,
                     [type |-> IF record.date # "" THEN "milestone" ELSE "normal"]))
       /\ lastOp' = [NoOp EXCEPT !.op = "checkTodo"]
       /\ UNCHANGED activeProjectId

(* App.handleDeleteRecord, confirmed *)
HandleDeleteRecord ==
  \E id \in ids(projectRecords) :
    /\ state' = render(deleteRecord(state, id))
    /\ lastOp' = [NoOp EXCEPT !.op = "deleteRecord", !.id = id,
                              !.from = find(state.records, id).categoryId,
                              !.pre = ordersContiguous(state.records,
                                                       find(state.records, id).categoryId)]
    /\ UNCHANGED activeProjectId

(* ProjectLogsModal -> deleteLogs with the selected log ids *)
DeleteLogs ==
  \E logIds \in SUBSET ids(SelectSeq(state.logs, LAMBDA l : l.projectId = activeProjectId)) :
    /\ logIds # {}
    /\ state' = render(deleteLogs(state, logIds))
    /\ lastOp' = [NoOp EXCEPT !.op = "deleteLogs"]
    /\ UNCHANGED activeProjectId

(* ProjectView.handleDragOver / handleDragEnd -> moveRecord: a record of the *)
(* project shown, a category of that project, and an index into that         *)
(* category's records (up to one past the end: larger ones splice alike)     *)
MoveRecord ==
  \E recordId \in ids(projectRecords), newCategoryId \in ids(projectCategories) :
   \E newOrder \in 0..(Len(inCategory(projectRecords, newCategoryId)) + 1) :
    /\ state' = render(moveRecord(state, recordId, newCategoryId, newOrder))
    /\ lastOp' = [op |-> "moveRecord", id |-> recordId,
                  from |-> find(state.records, recordId).categoryId,
                  to |-> newCategoryId,
                  pre |-> ordersContiguous(state.records,
                                           find(state.records, recordId).categoryId)]
    /\ UNCHANGED activeProjectId

(* the store driven by addRecord, deleteRecord and moveRecord alone (and   *)
(* deleteLogs, so that the bound on the log does not end the run)          *)
Within(act) ==
  /\ act
  /\ Len(state'.records) <= MaxRecords
  /\ Len(state'.logs) <= MaxLogs
  /\ UNCHANGED <<steps, storage, call, confirmState>>

NextRecords ==
  \/ Within(AddRecord({[type |-> "normal", date |-> ""]}))
  \/ Within(HandleDeleteRecord)
  \/ Within(MoveRecord)
  \/ Within(DeleteLogs)

SpecRecords == Init /\ [][NextRecords]_vars

(* the store driven by every handler of the App *)
Step(act) ==
  /\ steps < MaxSteps
  /\ act
  /\ steps' = steps + 1
  /\ UNCHANGED <<storage, call, confirmState>>

Next ==
  \/ Step(AddProject)
  \/ Step(UpdateProject)
  \/ Step(HandleDeleteProject)
  \/ Step(SelectProject)
  \/ Step(ReorderProjects)
  \/ Step(AddCategory)
  \/ Step(UpdateCategory)
  \/ Step(HandleDeleteCategory)
  \/ Step(ReorderCategories)
  \/ Step(AddRecord(Forms))
  \/ Step(SaveRecord)
  \/ Step(HandleCheckTodo)
  \/ Step(HandleDeleteRecord)
  \/ Step(DeleteLogs)
  \/ Step(MoveRecord)

Spec == Init /\ [][Next]_vars

(* ------------------- the hook under an arbitrary caller ---------------- *)
(* SpecStore: the store started from whatever storage holds, its callbacks  *)
(* called with any arguments (ids that name nothing included), the effect   *)
(* that writes the state back to storage, and a reload of the page.         *)
(* `call` is the last callback invoked and the arguments it was given.      *)

(* an id no object has *)
NoId == 99

(* at most MaxCalls callbacks are invoked in a run of SpecStore *)
MaxCalls == 2

(* the effect has run: storage holds the text of the current state *)
Persisted == storage = JSON_stringify(state)

firstProjectId(st) == IF Len(st.projects) > 0 THEN st.projects[1].id ELSE 0

InitStore ==
  /\ storage \in SavedItems
  /\ state = render(loadState(storage))
  /\ activeProjectId = firstProjectId(state)
  /\ lastOp = NoOp
  /\ steps = 0
  /\ call = NoCall
  /\ confirmState = NoDialog

(* useEffect(() => localStorage.setItem(STORAGE_KEY, JSON.stringify(state)), [state]) *)
Persist ==
  /\ ~Persisted
  /\ storage' = JSON_stringify(state)
  /\ UNCHANGED <<state, activeProjectId, lastOp, steps, call, confirmState>>

(* the page is loaded again: useStore and App initialise their state anew *)
Reload ==
  /\ state' = render(loadState(storage))
  /\ activeProjectId' = firstProjectId(state')
  /\ call' = [fn |-> "reload"]
  /\ UNCHANGED lastOp

(* the partial records updateRecord is called with: a title edit, a type    *)
(* change, and the record form (title, type, date, categoryId)               *)
Updates(categoryIds) ==
  {[title |-> "t1"]}
    \cup {[type |-> t] : t \in RecordType}
    \cup {[title |-> "t1", type |-> f.type, date |-> f.date, categoryId |-> c] :
            f \in Forms, c \in categoryIds}

CallAddRecord ==
  \E c \in Range(state.categories), form \in Forms :
    /\ c.projectId # 0
    /\ state' = render(addRecord(state, [projectId |-> c.projectId, categoryId |-> c.id,
                                         title |-> "t1", type |-> form.type,
                                         date |-> form.date]))
    /\ call' = [fn |-> "addRecord", projectId |-> c.projectId, type |-> form.type]
    /\ UNCHANGED <<activeProjectId, lastOp>>

(* the categories the record form and the board offer for a record: those *)
(* of its project                                                          *)
categoriesFor(id) ==
  IF has(state.records, id)
    THEN ids(categoriesOf(find(state.records, id).projectId))
    ELSE ids(state.categories)

CallUpdateRecord ==
  \E id \in ids(state.records) \cup {NoId} :
   \E updates \in Updates(categoriesFor(id)) :
    /\ state' = render(updateRecord(state, id, updates))
    /\ call' = [fn |-> "updateRecord", id |-> id, updates |-> updates]
    /\ UNCHANGED <<activeProjectId, lastOp>>

CallDeleteRecord ==
  \E id \in ids(state.records) \cup {NoId} :
    /\ state' = render(deleteRecord(state, id))
    /\ call' = [fn |-> "deleteRecord", id |-> id]
    /\ UNCHANGED <<activeProjectId, lastOp>>

CallDeleteLogs ==
  \E logIds \in SUBSET (ids(state.logs) \cup {NoId}) :
    /\ state' = render(deleteLogs(state, logIds))
    /\ call' = [fn |-> "deleteLogs", logIds |-> logIds]
    /\ UNCHANGED <<activeProjectId, lastOp>>

CallMoveRecord ==
  \E recordId \in ids(state.records) \cup {NoId} :
   \E newCategoryId \in categoriesFor(recordId) :
   \E newOrder \in 0..(Len(inCategory(state.records, newCategoryId)) + 1) :
    /\ state' = render(moveRecord(state, recordId, newCategoryId, newOrder))
    /\ call' = [fn |-> "moveRecord", recordId |-> recordId,
                newCategoryId |-> newCategoryId, newOrder |-> newOrder]
    /\ UNCHANGED <<activeProjectId, lastOp>>

(* ProjectView.handleDragOver(active, over) with the props records and       *)
(* categories: the moveRecord calls it makes, none or one.  over is a record  *)
(* card or a category column.                                                 *)
handleDragOver(records, categories, activeId, over) ==
  IF over.kind = "record" /\ over.id = activeId THEN <<>>
  ELSE IF ~has(records, activeId) THEN <<>>
  ELSE LET activeRecord == find(records, activeId)
       IN IF /\ over.kind = "record"
             /\ has(records, over.id)
             /\ activeRecord.categoryId # find(records, over.id).categoryId
            THEN LET newCategoryId == find(records, over.id).categoryId
                     categoryRecords == sortByOrder(inCategory(records, newCategoryId))
                     overIndex == findIndex(categoryRecords, over.id)
                 IN <<[recordId |-> activeId, newCategoryId |-> newCategoryId,
                       newOrder |-> overIndex]>>
          ELSE IF /\ over.kind = "category"
                  /\ has(categories, over.id)
                  /\ activeRecord.categoryId # over.id
            THEN LET categoryRecords == inCategory(records, over.id)
                 IN <<[recordId |-> activeId, newCategoryId |-> over.id,
                       newOrder |-> Len(categoryRecords)]>>
          ELSE <<>>

(* mutant: every update is computed from the state that was rendered, the last one wins *)
dispatch_stale(prev, updates) ==
  IF updates = <<>> THEN prev
  ELSE LET u == updates[Len(updates)]
       IN moveRecord(prev, u.recordId, u.newCategoryId, u.newOrder)

(* React runs the queued updaters of setState(prev => ...) in the order they *)
(* were queued, each on the result of the one before                          *)
RECURSIVE dispatch(_, _)
dispatch(prev, updates) ==
  IF updates = <<>> THEN prev
  ELSE dispatch(moveRecord(prev, updates[1].recordId, updates[1].newCategoryId,
                           updates[1].newOrder),
                Tail(updates))

(* two drag-over events handled before the next render: both read the same props *)
DragOverTwice ==
  \E activeId \in ids(projectRecords) :
    \E over1, over2 \in [kind : {"record"}, id : ids(projectRecords)]
                          \cup [kind : {"category"}, id : ids(projectCategories)] :
      LET first == handleDragOver(projectRecords, projectCategories, activeId, over1)
          second == handleDragOver(projectRecords, projectCategories, activeId, over2)
      IN /\ first # <<>>
         /\ second # <<>>
         /\ state' = render(dispatch(state, first \o second))
         /\ call' = [fn |-> "dragOverTwice", updates |-> first \o second]
         /\ UNCHANGED <<activeProjectId, lastOp>>

(* App.handleImport, reader.onload: e.target.result is the text of the file *)
HandleImport ==
  \E file \in Files :
    LET accepted == /\ file.kind = "json"
                    /\ {"projects", "categories", "records"} \subseteq DOMAIN file.value
    IN /\ state' = IF accepted THEN render(importData(state, asState(file.value)))
                    ELSE state
       /\ activeProjectId' =
            IF accepted /\ Len(file.value.projects) > 0
              THEN file.value.projects[1].id
              ELSE activeProjectId
       /\ call' = [fn |-> "import", file |-> file]
       /\ UNCHANGED lastOp

(* a handler of the App invoked by the same caller: call names the handler *)
CallHandler(act) ==
  /\ act
  /\ call' = [fn |-> lastOp'.op]

(* a callback is invoked once the effect of the last render has run *)
Call(act) ==
  /\ Persisted
  /\ steps < MaxCalls
  /\ act
  /\ steps' = steps + 1
  /\ UNCHANGED <<storage, confirmState>>

NextStore ==
  \/ Persist
  \/ Call(Reload)
  \/ Call(HandleImport)
  \/ Call(CallHandler(AddProject))
  \/ Call(CallAddRecord)
  \/ Call(CallUpdateRecord)
  \/ Call(CallDeleteRecord)
  \/ Call(CallDeleteLogs)
  \/ Call(CallMoveRecord)
  \/ Call(DragOverTwice)

SpecStore == InitStore /\ [][NextStore]_vars

(* --------------------------- the confirm dialog ------------------------ *)
(* SpecDialog: the project list of the sidebar and the confirm dialog of    *)
(* the App.  The dialog is an overlay over the page: it takes the pointer,  *)
(* not the keyboard, so what the sidebar offers to the keyboard (the new    *)
(* project input, the keyboard drag of a project) stays in reach while it   *)
(* is open.                                                                 *)

(* at most MaxEvents events are handled in a run of SpecDialog *)
MaxEvents == 4

(* App.handleDeleteProject(id) -> confirmAction: the dialog opens; onConfirm *)
(* is a closure over id and over state and activeProjectId of this render    *)
AskDeleteProject ==
  \E id \in ids(state.projects) :
    /\ confirmState' = [isOpen |-> TRUE, id |-> id, projects |-> state.projects,
                        activeProjectId |-> activeProjectId]
    /\ call' = [fn |-> "askDeleteProject", id |-> id]
    /\ UNCHANGED <<state, activeProjectId, lastOp>>

(* the dialog's confirm button: confirmState.onConfirm(), then the dialog closes *)
ConfirmDialog ==
  /\ confirmState.isOpen
  /\ state' = render(deleteProject(state, confirmState.id))
  /\ activeProjectId' =
       IF confirmState.activeProjectId = confirmState.id
         THEN LET remainingProjects ==
                    SelectSeq(confirmState.projects, LAMBDA p : p.id # confirmState.id)
              IN IF Len(remainingProjects) > 0 THEN remainingProjects[1].id ELSE 0
         ELSE activeProjectId
  /\ confirmState' = [confirmState EXCEPT !.isOpen = FALSE]
  /\ call' = [fn |-> "confirm", id |-> confirmState.id]
  /\ UNCHANGED lastOp

(* the dialog's cancel and close buttons: onCancel *)
CancelDialog ==
  /\ confirmState.isOpen
  /\ confirmState' = [confirmState EXCEPT !.isOpen = FALSE]
  /\ call' = [fn |-> "cancel"]
  /\ UNCHANGED <<state, activeProjectId, lastOp>>

(* a handler reached with the keyboard, the dialog open or not *)
ByKeyboard(act) ==
  /\ CallHandler(act)
  /\ UNCHANGED confirmState

(* a handler reached with the pointer: the dialog is not over the page *)
ByPointer(act) ==
  /\ ~confirmState.isOpen
  /\ act

Event(act) ==
  /\ steps < MaxEvents
  /\ act
  /\ steps' = steps + 1
  /\ UNCHANGED storage

NextDialog ==
  \/ Event(ByPointer(AskDeleteProject))
  \/ Event(ConfirmDialog)
  \/ Event(CancelDialog)
  \/ Event(ByKeyboard(AddProject))
  \/ Event(ByKeyboard(ReorderProjects))
  \/ Event(ByPointer(ByKeyboard(SelectProject)))

SpecDialog == Init /\ [][NextDialog]_vars

(* ======================= the ordering invariant ======================== *)

(* C1: in every state reachable by addRecord, deleteRecord and moveRecord,  *)
(* the orders of the records of every category are exactly 0..n-1.          *)
C1_OrdersContiguous ==
  \A c \in ids(state.categories) : ordersContiguous(state.records, c)

(* C2: right after a moveRecord to another category, the records left in    *)
(* the source category have orders exactly 0..m-1 and the records of the    *)
(* destination category, the moved one among them, have orders exactly 0..k *)
C2_CrossMoveReindexesBoth ==
  (lastOp.op = "moveRecord" /\ lastOp.from # lastOp.to) =>
    /\ find(state.records, lastOp.id).categoryId = lastOp.to
    /\ ordersContiguous(state.records, lastOp.from)
    /\ ordersContiguous(state.records, lastOp.to)

C2_Witness ==
  /\ lastOp.op = "moveRecord"
  /\ lastOp.from # lastOp.to
  /\ ~lastOp.pre
  /\ Len(inCategory(state.records, lastOp.from)) >= 1
  /\ Len(inCategory(state.records, lastOp.to)) >= 2

(* C3: deleteRecord on a record whose category has orders 0..n-1 leaves the *)
(* remaining records of that category with orders exactly 0..n-2.           *)
C3_DeleteClosesGap ==
  (lastOp.op = "deleteRecord" /\ lastOp.pre) =>
    ordersContiguous(state.records, lastOp.from)

(* C4: addRecord appends one record whose order is the number of records    *)
(* its (projectId, categoryId) held before; orders 0..n-1 before are 0..n   *)
(* after; no record that was there changes.                                 *)
C4_AddRecordOrder ==
  [][lastOp'.op = "addRecord" =>
       LET new == state'.records[Len(state'.records)]
       IN /\ Len(state'.records) = Len(state.records) + 1
          /\ new.categoryId = lastOp'.to
          /\ new.order = Cardinality({i \in 1..Len(state.records) :
                            /\ state.records[i].projectId = new.projectId
                            /\ state.records[i].categoryId = new.categoryId})
          /\ \A i \in 1..Len(state.records) : state'.records[i] = state.records[i]
          /\ ordersContiguous(state.records, new.categoryId)
               => ordersContiguous(state'.records, new.categoryId)]_vars

C4_Witness ==
  /\ lastOp.op = "addRecord"
  /\ lastOp.pre
  /\ Len(inCategory(state.records, lastOp.to)) >= 2
  /\ ordersContiguous(state.records, lastOp.to)

(* C5: moveRecord within the record's own category leaves the category with *)
(* the same records and orders exactly 0..n-1, whatever the orders were     *)
(* before (gaps and duplicates included) and whatever index is asked for.   *)
C5_MoveWithinIsPermutation ==
  [][(lastOp'.op = "moveRecord" /\ lastOp'.from = lastOp'.to) =>
       /\ ids(inCategory(state'.records, lastOp'.to)) = ids(inCategory(state.records, lastOp'.to))
       /\ Len(state'.records) = Len(state.records)
       /\ ordersContiguous(state'.records, lastOp'.to)]_vars

C5_Witness ==
  /\ lastOp.op = "moveRecord"
  /\ lastOp.from = lastOp.to
  /\ ~lastOp.pre
  /\ Len(inCategory(state.records, lastOp.to)) = 3
  /\ find(state.records, lastOp.id).order = 1

(* C6: a move keeps the relative order of every two records other than the  *)
(* moved one that share a category: the one with the smaller order before    *)
(* has the smaller order after.                                              *)
C6_MoveIsStable ==
  [][lastOp'.op = "moveRecord" =>
       \A a \in ids(state.records), b \in ids(state.records) :
         (/\ a # lastOp'.id
          /\ b # lastOp'.id
          /\ find(state.records, a).categoryId = find(state.records, b).categoryId
          /\ find(state.records, a).order < find(state.records, b).order)
         => /\ find(state'.records, a).categoryId = find(state'.records, b).categoryId
            /\ find(state'.records, a).order < find(state'.records, b).order]_vars

C6_Witness ==
  /\ lastOp.op = "moveRecord"
  /\ \E a \in ids(state.records), b \in ids(state.records) :
       /\ a # lastOp.id
       /\ b # lastOp.id
       /\ find(state.records, a).categoryId = find(state.records, b).categoryId
       /\ find(state.records, a).order < find(state.records, b).order
       /\ findIndex(state.records, a) > findIndex(state.records, b)

(* ======================== cascades and the log ========================= *)

(* C7: deleteProject(id) leaves no project with that id and no category,   *)
(* record or log entry whose projectId is id, and keeps every project,     *)
(* category, record and log entry of the other projects as it was.         *)
C7_DeleteProjectCascades ==
  [][lastOp'.op = "deleteProject" =>
       LET id == lastOp'.id
       IN /\ \A p \in Range(state'.projects) : p.id # id
          /\ \A c \in Range(state'.categories) : c.projectId # id
          /\ \A r \in Range(state'.records) : r.projectId # id
          /\ \A l \in Range(state'.logs) : l.projectId # id
          /\ Range(state'.projects) = {p \in Range(state.projects) : p.id # id}
          /\ Range(state'.categories) = {c \in Range(state.categories) : c.projectId # id}
          /\ Range(state'.records) = {r \in Range(state.records) : r.projectId # id}
          /\ Range(state'.logs) = {l \in Range(state.logs) : l.projectId # id}
          /\ Len(state'.projects) = Len(state.projects) - 1]_vars

C7_Witness ==
  /\ lastOp.op = "deleteProject"
  /\ steps = MaxSteps
  /\ Len(state.projects) = 1
  /\ Len(state.categories) = 4
  /\ Len(state.records) = 2
  /\ Len(state.logs) = 1

(* C8: deleteCategory(id) leaves no category with that id and no record    *)
(* whose categoryId is id, and keeps every other category and every record *)
(* of the other categories as it was.                                      *)
C8_DeleteCategoryCascades ==
  [][lastOp'.op = "deleteCategory" =>
       LET id == lastOp'.id
       IN /\ \A c \in Range(state'.categories) : c.id # id
          /\ \A r \in Range(state'.records) : r.categoryId # id
          /\ Range(state'.categories) = {c \in Range(state.categories) : c.id # id}
          /\ Range(state'.records) = {r \in Range(state.records) : r.categoryId # id}
          /\ Len(state'.categories) = Len(state.categories) - 1]_vars

C8_Witness ==
  /\ lastOp.op = "deleteCategory"
  /\ steps = 1
  /\ Len(state.categories) = 3
  /\ Len(state.records) = 1

C10_ChangesAreLogged ==
  [][(lastOp'.op \in {"moveRecord", "deleteCategory"} /\ state'.records # state.records) =>
       /\ Len(state'.logs) = Len(state.logs) + 1
       /\ state'.logs[Len(state'.logs)].projectId = activeProjectId]_vars

(* ===================== persistence and dispatch ======================== *)

(* the step invokes the callback fn of the store *)
Invoked(fn) == steps' = steps + 1 /\ call'.fn = fn

(* the store with the effect that writes to storage always run in the end *)
SpecStoreFair == SpecStore /\ WF_vars(Persist)

(* after every transition storage comes to hold the text of the current state *)
EventuallyPersisted == []<>Persisted

(* C11: a reload made once storage holds the text of the current state     *)
(* gives back the state there was before it.                               *)
C11_ReloadRestores ==
  [][(Invoked("reload") /\ Persisted) => state' = state]_vars

(* C12: two moveRecord calls queued by two drag-over events that read the   *)
(* same props both take effect, in the order they were queued: the records  *)
(* are those the second call gives on the result of the first, the dragged  *)
(* record is in the category the second call names, and every category      *)
(* whose orders were 0..n-1 before, and every category one of the calls     *)
(* names, has orders 0..n-1 afterwards.                                     *)
C12_QueuedMovesAllApply ==
  [][Invoked("dragOverTwice") =>
       LET first == call'.updates[1]
           second == call'.updates[2]
           afterFirst == moveRecord(state, first.recordId, first.newCategoryId,
                                    first.newOrder)
           afterSecond == moveRecord(afterFirst, second.recordId, second.newCategoryId,
                                     second.newOrder)
       IN /\ state'.records = afterSecond.records
          /\ find(afterFirst.records, first.recordId).categoryId = first.newCategoryId
          /\ find(state'.records, second.recordId).categoryId = second.newCategoryId
          /\ ordersContiguous(state'.records, first.newCategoryId)
          /\ ordersContiguous(state'.records, second.newCategoryId)
          /\ \A c \in ids(state.categories) :
               ordersContiguous(state.records, c) => ordersContiguous(state'.records, c)]_vars

C12_Witness ==
  /\ call.fn = "dragOverTwice"
  /\ call.updates[1].newCategoryId # call.updates[2].newCategoryId
  /\ call.updates[1].newOrder = 1
  /\ Len(inCategory(state.records, call.updates[1].newCategoryId)) = 2
  /\ find(state.records, call.updates[2].recordId).categoryId = call.updates[2].newCategoryId

(* ===================== the store's other operations ==================== *)

(* C13: saving the record form with another category chosen (updateRecord  *)
(* with categoryId in the update), when the category left and the category *)
(* entered both had orders 0..n-1, leaves both with orders 0..n-1.         *)
C13_EditKeepsOrders ==
  [][(/\ lastOp'.op = "updateRecord"
      /\ lastOp'.from # lastOp'.to
      /\ ordersContiguous(state.records, lastOp'.from)
      /\ ordersContiguous(state.records, lastOp'.to))
     => /\ ordersContiguous(state'.records, lastOp'.from)
        /\ ordersContiguous(state'.records, lastOp'.to)]_vars

(* C14: moveRecord(recordId, newCategoryId, newOrder) with newOrder >= 0.   *)
(* Within the record's category of n records the record ends with order    *)
(* min(newOrder, n-1).  Into another category holding k records it ends    *)
(* with order min(newOrder, k), and the record that was at index i of that  *)
(* category (by order) ends with order i + 1 when i >= newOrder and with   *)
(* order i otherwise.                                                      *)
C14_MovePlacesAtIndex ==
  [][(Invoked("moveRecord") /\ has(state.records, call'.recordId)) =>
       LET recordId == call'.recordId
           newCategoryId == call'.newCategoryId
           newOrder == call'.newOrder
           destination == sortByOrder(inCategory(state.records, newCategoryId))
           moved == find(state'.records, recordId)
       IN IF find(state.records, recordId).categoryId = newCategoryId
            THEN moved.order = Min(newOrder, Len(destination) - 1)
            ELSE /\ moved.categoryId = newCategoryId
                 /\ moved.order = Min(newOrder, Len(destination))
                 /\ \A i \in 0..(Len(destination) - 1) :
                      find(state'.records, destination[i + 1].id).order =
                        IF i >= newOrder THEN i + 1 ELSE i]_vars

C14_Witness ==
  /\ call.fn = "moveRecord"
  /\ has(state.records, call.recordId)
  /\ call.newOrder = 1
  /\ Len(inCategory(state.records, call.newCategoryId)) = 4
  /\ find(state.records, call.recordId).order = 1

(* C15: moveRecord with an id that names no record leaves the state as it  *)
(* was.  Otherwise the records are the same ones at the same places of the *)
(* array, the moved record differs from before at most in categoryId and   *)
(* order, every other record at most in order, a record outside the source *)
(* and the destination category or of another project not at all, and     *)
(* projects, categories and logs are as before.                            *)
C15_MoveFrame ==
  [][Invoked("moveRecord") =>
       IF ~has(state.records, call'.recordId) THEN state' = state
       ELSE LET old == find(state.records, call'.recordId)
                touched == {old.categoryId, call'.newCategoryId}
            IN /\ Len(state'.records) = Len(state.records)
               /\ \A i \in 1..Len(state.records) :
                    LET before == state.records[i]
                        after == state'.records[i]
                    IN /\ after.id = before.id
                       /\ [after EXCEPT !.order = before.order,
                                        !.categoryId = before.categoryId] = before
                       /\ before.id # old.id => after.categoryId = before.categoryId
                       /\ (before.categoryId \notin touched \/ before.projectId # old.projectId)
                            => after = before
               /\ state'.projects = state.projects
               /\ state'.categories = state.categories
               /\ state'.logs = state.logs]_vars

C15_Witness ==
  /\ call.fn = "moveRecord"
  /\ has(state.records, call.recordId)
  /\ Len(inCategory(state.records, call.newCategoryId)) >= 2
  /\ find(state.records, call.recordId).order = 0
  /\ \E r \in Range(state.records) : r.categoryId # call.newCategoryId /\ r.order = 1
  /\ Len(state.logs) >= 1

(* C16: deleteRecord(id) with the id of a record removes that record and   *)
(* no other, and appends one log entry, 'deleteRecord' with the record's   *)
(* title and projectId; with an id that names no record, records and logs  *)
(* are as before.                                                          *)
C16_DeleteRecordLogs ==
  [][Invoked("deleteRecord") =>
       IF has(state.records, call'.id)
         THEN LET record == find(state.records, call'.id)
                  n == Len(state.logs)
              IN /\ state'.records = SelectSeq(state.records, LAMBDA r : r.id # record.id)
                 /\ Len(state'.records) = Len(state.records) - 1
                 /\ Len(state'.logs) = n + 1
                 /\ SubSeq(state'.logs, 1, n) = state.logs
                 /\ state'.logs[n + 1].projectId = record.projectId
                 /\ state'.logs[n + 1].content = <<"deleteRecord", record.title>>
         ELSE /\ state'.records = state.records
              /\ state'.logs = state.logs]_vars

C16_Witness ==
  /\ call.fn = "deleteRecord"
  /\ call.id # NoId
  /\ Len(state.logs) = 2
  /\ state.logs[2].content[1] = "deleteRecord"
  /\ state.logs[2].projectId # state.logs[1].projectId

(* C17: addRecord appends one record and one log entry with the record's   *)
(* projectId, 'addMilestone' with the title when the record is a milestone *)
(* and 'addRecord' with the title otherwise; the records and log entries   *)
(* there were are as before.                                               *)
C17_AddRecordLogs ==
  [][Invoked("addRecord") =>
       LET n == Len(state.records)
           m == Len(state.logs)
           new == state'.records[n + 1]
           newLog == state'.logs[m + 1]
       IN /\ Len(state'.records) = n + 1
          /\ SubSeq(state'.records, 1, n) = state.records
          /\ new.id \notin ids(state.records)
          /\ new.projectId = call'.projectId
          /\ new.type = call'.type
          /\ Len(state'.logs) = m + 1
          /\ SubSeq(state'.logs, 1, m) = state.logs
          /\ newLog.id \notin ids(state.logs)
          /\ newLog.projectId = new.projectId
          /\ newLog.content =
               <<IF new.type = "milestone" THEN "addMilestone" ELSE "addRecord", new.title>>]_vars

C17_Witness ==
  /\ call.fn = "addRecord"
  /\ call.type = "milestone"
  /\ Len(state.logs) = 2
  /\ state.logs[1].content[1] = "addRecord"
  /\ state.logs[2].content[1] = "addMilestone"

(* C18: updateRecord(id, updates) appends one log entry, 'completeTodo'    *)
(* with the record's title and projectId, when id names a record whose     *)
(* type is todo and updates has a type other than todo; in every other     *)
(* case the log is as before.                                              *)
C18_CompletionLogged ==
  [][Invoked("updateRecord") =>
       LET id == call'.id
           updates == call'.updates
           m == Len(state.logs)
           completes == /\ has(state.records, id)
                        /\ find(state.records, id).type = "todo"
                        /\ "type" \in DOMAIN updates
                        /\ updates.type # "todo"
       IN IF completes
            THEN /\ Len(state'.logs) = m + 1
                 /\ SubSeq(state'.logs, 1, m) = state.logs
                 /\ state'.logs[m + 1].projectId = find(state.records, id).projectId
                 /\ state'.logs[m + 1].content =
                      <<"completeTodo", find(state.records, id).title>>
            ELSE state'.logs = state.logs]_vars

C18_Witness ==
  /\ call.fn = "updateRecord"
  /\ call.updates = [type |-> "milestone"]
  /\ Len(state.logs) = 2
  /\ state.logs[2].content[1] = "completeTodo"
  /\ find(state.records, call.id).type = "milestone"

(* C19: deleteLogs(logIds) leaves the log entries whose id is not in       *)
(* logIds, each as it was and in the order they had, and leaves projects,  *)
(* categories and records as they were; an id of no entry removes nothing. *)
C19_DeleteLogsFrame ==
  [][Invoked("deleteLogs") =>
       /\ ids(state'.logs) = ids(state.logs) \ call'.logIds
       /\ Len(state'.logs) = Cardinality(ids(state.logs) \ call'.logIds)
       /\ \A i \in 1..Len(state'.logs) :
            /\ state'.logs[i] = find(state.logs, state'.logs[i].id)
            /\ \A j \in (i + 1)..Len(state'.logs) :
                 findIndex(state.logs, state'.logs[i].id)
                   < findIndex(state.logs, state'.logs[j].id)
       /\ state'.projects = state.projects
       /\ state'.categories = state.categories
       /\ state'.records = state.records]_vars

C19_Witness ==
  /\ call.fn = "deleteLogs"
  /\ call.logIds = {2, NoId}
  /\ Len(state.logs) = 2
  /\ state.logs[1].id = 1
  /\ state.logs[2].id = 3

C21_ImportAllOrNothing ==
  [][Invoked("import") =>
       LET file == call'.file
           accepted == /\ file.kind = "json"
                       /\ "projects" \in DOMAIN file.value
                       /\ "categories" \in DOMAIN file.value
                       /\ "records" \in DOMAIN file.value
       IN IF accepted
            THEN LET data == file.value
                 IN /\ state'.projects = data.projects
                    /\ Len(state'.categories) = Len(data.categories)
                    /\ \A i \in 1..Len(data.categories) :
                         stringifyObject(state'.categories[i]) = data.categories[i]
                    /\ Len(state'.records) = Len(data.records)
                    /\ \A i \in 1..Len(data.records) :
                         stringifyObject(state'.records[i]) = data.records[i]
                    /\ state'.logs = (IF "logs" \in DOMAIN data THEN data.logs ELSE <<>>)
                    /\ activeProjectId' =
                         IF Len(data.projects) > 0 THEN data.projects[1].id
                         ELSE activeProjectId
            ELSE /\ state' = state
                 /\ activeProjectId' = activeProjectId]_vars

C21_Witness ==
  /\ call.fn = "import"
  /\ call.file = SavedTwoProjects
  /\ steps = 2
  /\ activeProjectId = 2
  /\ Len(state.records) = 2
  /\ state.categories[2].projectId = 0

(* C22: a drag of one category of the category manager onto another        *)
(* (reorderCategories with the project's categories, renumbered).  No      *)
(* category is added or removed, none changes but in order, those of       *)
(* other projects do not change at all, the categories of the project end  *)
(* with orders exactly 0..n-1, the dragged one at the place in the list    *)
(* shown that the one it was dropped on had, and projects, records and     *)
(* logs are as before.                                                     *)
C22_ReorderCategories ==
  [][lastOp'.op = "reorderCategories" =>
       LET shown == sortByOrder(projectCategories)
           newIndex == findIndex(shown, lastOp'.to)
           after == SelectSeq(state'.categories, LAMBDA c : c.projectId = activeProjectId)
       IN /\ Len(state'.categories) = Len(state.categories)
          /\ \A i \in 1..Len(state.categories) :
               /\ [state'.categories[i] EXCEPT !.order = state.categories[i].order]
                    = state.categories[i]
               /\ state.categories[i].projectId # activeProjectId
                    => state'.categories[i] = state.categories[i]
          /\ {after[i].order : i \in 1..Len(after)} = 0..(Len(after) - 1)
          /\ find(state'.categories, lastOp'.id).order = newIndex
          /\ state'.projects = state.projects
          /\ state'.records = state.records
          /\ state'.logs = state.logs]_vars

C22_Witness ==
  /\ lastOp.op = "reorderCategories"
  /\ Len(state.projects) = 2
  /\ Len(state.categories) = 9
  /\ find(state.categories, lastOp.id).order = 4
  /\ find(state.categories, lastOp.to).order = 3

(* C23: opening the dialog for a project and cancelling it leave state and *)
(* active project as they were.  On confirm the project is deleted; when   *)
(* it was the active project the active project becomes the first of the   *)
(* projects that remain, or none (0) when none remains; when it was not,   *)
(* the active project stays.                                               *)
C23_ConfirmedDelete ==
  [][/\ (Invoked("askDeleteProject") \/ Invoked("cancel")) =>
          /\ state' = state
          /\ activeProjectId' = activeProjectId
     /\ Invoked("confirm") =>
          /\ call'.id \notin ids(state'.projects)
          /\ state' = render(deleteProject(state, call'.id))
          /\ activeProjectId' =
               IF activeProjectId = call'.id THEN firstProjectId(state')
               ELSE activeProjectId]_vars

====
